---- MODULE Spec2Model ----
(***************************************************************************)
(* A model of @hoajs/router (src/src/router.js): the route registration    *)
(* functions, the route middleware each registration adds to the           *)
(* application, and the handling of a request by the application's         *)
(* middleware chain.                                                       *)
(*                                                                         *)
(* Strings are sequences of one-character strings.  A JavaScript value     *)
(* that may be undefined is a sequence of length 0 (undefined) or 1.       *)
(***************************************************************************)
EXTENDS Naturals, Sequences, FiniteSets, TLC

VARIABLES options, middleware, result, phase, req, pc, failure, trace, parked

vars == <<options, middleware, result, phase, req, pc, failure, trace, parked>>

\* ---------------------------------------------------------------- bounds

\* The most routes one application registers.
MaxRoutes == 2

\* The most handlers one registration passes.
MaxHandlers == 2

\* The longest request path of the parameter specification.
MaxPathLen == 4

\* ---------------------------------------------------------------- values

None == <<>>

Some(x) == <<x>>

IsSome(o) == Len(o) = 1

Val(o) == o[1]

RECURSIVE Concat(_)
\* The concatenation of a sequence of sequences.
Concat(ss) == IF ss = <<>> THEN <<>> ELSE Head(ss) \o Concat(Tail(ss))

\* The characters a request path is made of.
PathChars == {"/", "x", "%", "2", "F"}

\* The characters that may start a capture name, and those that may follow.
IdStart == {"n", "x", "y", "F"}

IdContinue == IdStart \cup {"2"}

\* The characters the pattern grammar reserves.
Reserved == {"(", ")", "[", "]", "+", "?", "!"}

\* RegExp flag i: the case folding of one character.
Fold(c) == CASE c = "F" -> "f" [] c = "X" -> "x" [] c = "Y" -> "y" [] OTHER -> c

\* ------------------------------------------------------- pattern compiler

Token(type, value, name, tokens) ==
    [type |-> type, value |-> value, name |-> name, tokens |-> tokens]

ParseError == [ok |-> FALSE, tokens |-> <<>>, pos |-> 0]

RECURSIVE NameEnd(_, _)
\* The index after the identifier characters of p that start at index i.
NameEnd(p, i) ==
    IF i <= Len(p) /\ p[i] \in IdContinue THEN NameEnd(p, i + 1) ELSE i

RECURSIVE TextEnd(_, _)
\* The index after the plain characters of p that start at index i.
TextEnd(p, i) ==
    IF i <= Len(p) /\ p[i] \notin (Reserved \cup {"{", "}", ":", "*"})
    THEN TextEnd(p, i + 1) ELSE i

RECURSIVE Consume(_, _, _, _)
\* parse's consume(endType): the tokens of p from index i up to the end of the
\* pattern (inGroup = FALSE) or to the closing brace of the group (TRUE).
Consume(p, i, toks, inGroup) ==
    IF i > Len(p)
    THEN IF inGroup THEN ParseError ELSE [ok |-> TRUE, tokens |-> toks, pos |-> i]
    ELSE
    CASE p[i] = "}" ->
           IF inGroup THEN [ok |-> TRUE, tokens |-> toks, pos |-> i + 1]
           ELSE ParseError
      [] p[i] = "{" ->
           LET g == Consume(p, i + 1, <<>>, TRUE)
           IN  IF g.ok
               THEN Consume(p, g.pos, Append(toks, Token("group", <<>>, <<>>, g.tokens)), inGroup)
               ELSE ParseError
      [] p[i] \in Reserved -> ParseError
      [] p[i] \in {":", "*"} ->
           LET e == NameEnd(p, i + 1)
               ty == IF p[i] = ":" THEN "param" ELSE "wildcard"
           IN  IF i + 1 > Len(p) \/ p[i + 1] \notin IdStart
               THEN ParseError
               ELSE Consume(p, e, Append(toks, Token(ty, <<>>, SubSeq(p, i + 1, e - 1), <<>>)), inGroup)
      [] OTHER ->
           LET e == TextEnd(p, i)
           IN  Consume(p, e, Append(toks, Token("text", SubSeq(p, i, e - 1), <<>>, <<>>)), inGroup)

\* parse(path): the token tree of a pattern, or a failure.
Parse(p) == Consume(p, 1, <<>>, FALSE)

RECURSIVE Flatten(_, _, _)
RECURSIVE FlattenEach(_, _, _)
\* flatten's loop over the sequences a group yields.
FlattenEach(seqs, tokens, index) ==
    IF seqs = <<>> THEN <<>>
    ELSE Flatten(tokens, index + 1, Head(seqs)) \o FlattenEach(Tail(seqs), tokens, index)

\* flatten(tokens, index, init): every sequence of text, param and wildcard
\* tokens the pattern stands for, a group taken before it is left out.
Flatten(tokens, index, init) ==
    IF index > Len(tokens) THEN <<init>>
    ELSE IF tokens[index].type = "group"
         THEN FlattenEach(Flatten(tokens[index].tokens, 1, init), tokens, index)
              \o Flatten(tokens, index + 1, init)
         ELSE Flatten(tokens, index + 1, Append(init, tokens[index]))

RECURSIVE SequenceToRegExp(_, _, _, _, _, _)
\* sequenceToRegExp: the elements of one alternative.  A parameter that follows
\* another with no text between them cannot be compiled.
SequenceToRegExp(tokens, i, delimiter, backtrack, isSafe, acc) ==
    IF i > Len(tokens) THEN [ok |-> TRUE, elems |-> acc]
    ELSE LET t == tokens[i] IN
         IF t.type = "text"
         THEN SequenceToRegExp(tokens, i + 1, delimiter, backtrack \o t.value,
                  isSafe \/ (\E k \in 1..Len(t.value) : t.value[k] = delimiter),
                  Append(acc, [type |-> "text", value |-> t.value, name |-> <<>>, backtrack |-> <<>>]))
         ELSE IF ~isSafe /\ backtrack = <<>>
              THEN [ok |-> FALSE, elems |-> <<>>]
              ELSE SequenceToRegExp(tokens, i + 1, delimiter, <<>>, FALSE,
                       Append(acc, [type |-> t.type, value |-> <<>>, name |-> t.name,
                                    backtrack |-> IF isSafe THEN <<>> ELSE backtrack]))

RECURSIVE CompileAlts(_, _)
\* pathToRegexp's loop over the flattened sequences.
CompileAlts(seqs, delimiter) ==
    IF seqs = <<>> THEN [ok |-> TRUE, alts |-> <<>>]
    ELSE LET a == SequenceToRegExp(Head(seqs), 1, delimiter, <<>>, TRUE, <<>>)
             rest == CompileAlts(Tail(seqs), delimiter)
         IN  IF a.ok /\ rest.ok
             THEN [ok |-> TRUE, alts |-> <<a.elems>> \o rest.alts]
             ELSE [ok |-> FALSE, alts |-> <<>>]

\* The capture elements of one alternative, in order.
Captures(elems) == SelectSeq(elems, LAMBDA e : e.type # "text")

RECURSIVE KeysOf(_)
\* keys: the name of every capture of every alternative, in regular-expression order.
KeysOf(alts) ==
    IF alts = <<>> THEN <<>>
    ELSE [k \in 1..Len(Captures(Head(alts))) |-> Captures(Head(alts))[k].name]
         \o KeysOf(Tail(alts))

\* pathToRegexp(path, options): the alternatives and the keys, or a failure.
PathToRegexp(path, opts) ==
    LET parsed == Parse(path)
        comp == CompileAlts(Flatten(parsed.tokens, 1, <<>>), opts.delimiter)
    IN  IF parsed.ok /\ comp.ok
        THEN [ok |-> TRUE, alts |-> comp.alts, keys |-> KeysOf(comp.alts)]
        ELSE [ok |-> FALSE, alts |-> <<>>, keys |-> <<>>]

\* ------------------------------------------------------------ regexp.exec

\* Equality of characters under the flags of the regular expression.
SameChar(c, d, opts) == IF opts.sensitive THEN c = d ELSE Fold(c) = Fold(d)

\* Whether text occurs in s at index pos.
TextAt(s, pos, text, opts) ==
    /\ pos + Len(text) - 1 <= Len(s)
    /\ \A k \in 1..Len(text) : SameChar(s[pos + k - 1], text[k], opts)

\* negate(delimiter, backtrack): whether the character of s at pos may belong
\* to a named capture.
ParamChar(s, pos, e, opts) ==
    /\ ~SameChar(s[pos], opts.delimiter, opts)
    /\ IF Len(e.backtrack) < 2
       THEN \A k \in 1..Len(e.backtrack) : ~SameChar(s[pos], e.backtrack[k], opts)
       ELSE ~TextAt(s, pos, e.backtrack, opts)

RECURSIVE RunEnd(_, _, _, _)
\* The index after the longest run from pos a capture element can take.
RunEnd(s, pos, e, opts) ==
    IF pos <= Len(s) /\ (e.type = "wildcard" \/ ParamChar(s, pos, e, opts))
    THEN RunEnd(s, pos + 1, e, opts) ELSE pos

\* What follows the alternatives: the optional trailing delimiter and the end.
TailOK(s, pos, opts) ==
    LET atEnd(q) == IF opts.end THEN q = Len(s) + 1
                    ELSE q = Len(s) + 1 \/ SameChar(s[q], opts.delimiter, opts)
    IN  \/ /\ opts.trailing
           /\ pos = Len(s)
           /\ SameChar(s[pos], opts.delimiter, opts)
           /\ atEnd(pos + 1)
        \/ atEnd(pos)

NoMatch == [ok |-> FALSE, caps |-> <<>>]

RECURSIVE MatchFrom(_, _, _, _, _)
RECURSIVE TryLen(_, _, _, _, _, _)
\* A greedy capture: the longest length first, then each shorter one.
TryLen(elems, k, s, pos, n, opts) ==
    IF n = 0 THEN NoMatch
    ELSE LET r == MatchFrom(elems, k + 1, s, pos + n, opts)
         IN  IF r.ok
             THEN [ok |-> TRUE, caps |-> <<Some(SubSeq(s, pos, pos + n - 1))>> \o r.caps]
             ELSE TryLen(elems, k, s, pos, n - 1, opts)

\* The first match, in backtracking order, of the elements from k at pos.
MatchFrom(elems, k, s, pos, opts) ==
    IF k > Len(elems)
    THEN IF TailOK(s, pos, opts) THEN [ok |-> TRUE, caps |-> <<>>] ELSE NoMatch
    ELSE IF elems[k].type = "text"
         THEN IF TextAt(s, pos, elems[k].value, opts)
              THEN MatchFrom(elems, k + 1, s, pos + Len(elems[k].value), opts)
              ELSE NoMatch
         ELSE TryLen(elems, k, s, pos, RunEnd(s, pos, elems[k], opts) - pos, opts)

Undefineds(n) == [k \in 1..n |-> None]

RECURSIVE ExecAlts(_, _, _, _)
\* The alternatives in order: the slots of the first that matches, and
\* undefined for every capture of the others.
ExecAlts(alts, a, s, opts) ==
    IF a > Len(alts) THEN NoMatch
    ELSE LET r == MatchFrom(alts[a], 1, s, 1, opts)
             before == Concat([k \in 1..(a - 1) |-> Undefineds(Len(Captures(alts[k])))])
             after == Concat([k \in 1..(Len(alts) - a) |-> Undefineds(Len(Captures(alts[a + k])))])
         IN  IF r.ok THEN [ok |-> TRUE, caps |-> before \o r.caps \o after]
             ELSE ExecAlts(alts, a + 1, s, opts)

\* A variant of Exec on a regular expression compiled without the trailing
\* option of the router.
Exec_NoTrailing(re, s, opts) == ExecAlts(re.alts, 1, s, [opts EXCEPT !.trailing = FALSE])

\* A variant of Exec on a regular expression compiled without the end option
\* of the router: it is always anchored at the end.
Exec_Anchored(re, s, opts) == ExecAlts(re.alts, 1, s, [opts EXCEPT !.end = TRUE])

\* regexp.exec(pathname), then m.slice(1): one slot for every key.
Exec(re, s, opts) == ExecAlts(re.alts, 1, s, opts)

\* -------------------------------------------------------------- router.js

\* The options of router(): path-to-regexp's defaults where none is given.
DefaultOptions == [sensitive |-> FALSE, end |-> TRUE, delimiter |-> "/", trailing |-> TRUE]

\* methods: the verbs the extension installs a registration function for.
Methods == {"options", "head", "get", "post", "put", "patch", "delete"}

\* method.toUpperCase()
ToUpperCase(m) ==
    CASE m = "options" -> "OPTIONS" [] m = "head" -> "HEAD" [] m = "get" -> "GET"
      [] m = "post" -> "POST" [] m = "put" -> "PUT" [] m = "patch" -> "PATCH"
      [] m = "delete" -> "DELETE"

\* The registration functions of the application: app[method] is
\* createRouteMethod(method.toUpperCase()), app.all is createRouteMethod().
RouteMethodOf(fn) == IF fn = "all" THEN None ELSE Some(ToUpperCase(fn))

\* The value of a hexadecimal digit (16: not one).
HexVal(c) ==
    CASE c = "0" -> 0 [] c = "1" -> 1 [] c = "2" -> 2 [] c = "3" -> 3 [] c = "4" -> 4
      [] c = "5" -> 5 [] c = "6" -> 6 [] c = "7" -> 7 [] c = "8" -> 8 [] c = "9" -> 9
      [] c \in {"a", "A"} -> 10 [] c \in {"b", "B"} -> 11 [] c \in {"c", "C"} -> 12
      [] c \in {"d", "D"} -> 13 [] c \in {"e", "E"} -> 14 [] c \in {"f", "F"} -> 15
      [] OTHER -> 16

\* The character of an ASCII code an escape of PathChars can spell.
Chr(n) == CASE n = 34 -> "\"" [] n = 47 -> "/" [] OTHER -> "?"

RECURSIVE DecodeURIComponent(_)
\* decodeURIComponent: every %hh escape replaced by the character it encodes;
\* a % that two hexadecimal digits do not follow, and a byte of 0x80 or more
\* that is not part of a well-formed UTF-8 sequence, make it throw URIError.
\* The hexadecimal digits of PathChars spell no continuation byte, so every
\* byte of 0x80 or more is malformed here.
DecodeURIComponent(s) ==
    IF s = <<>> THEN [ok |-> TRUE, value |-> <<>>]
    ELSE IF Head(s) # "%"
         THEN LET r == DecodeURIComponent(Tail(s))
              IN  [ok |-> r.ok, value |-> IF r.ok THEN <<Head(s)>> \o r.value ELSE <<>>]
         ELSE IF Len(s) < 3 \/ HexVal(s[2]) = 16 \/ HexVal(s[3]) = 16
                 \/ 16 * HexVal(s[2]) + HexVal(s[3]) >= 128
              THEN [ok |-> FALSE, value |-> <<>>]
              ELSE LET r == DecodeURIComponent(SubSeq(s, 4, Len(s)))
                   IN  [ok |-> r.ok,
                        value |-> IF r.ok THEN <<Chr(16 * HexVal(s[2]) + HexVal(s[3]))>> \o r.value
                                  ELSE <<>>]

\* A variant of Decode that returns the empty string for a falsy value.
Decode_EmptyForFalsy(val) ==
    IF IsSome(val) /\ Val(val) # <<>>
    THEN LET d == DecodeURIComponent(Val(val))
         IN  [ok |-> d.ok, value |-> IF d.ok THEN Some(d.value) ELSE None]
    ELSE [ok |-> TRUE, value |-> Some(<<>>)]

\* decode(val): undefined for a falsy value, else decodeURIComponent(val),
\* which may throw.
Decode(val) ==
    IF IsSome(val) /\ Val(val) # <<>>
    THEN LET d == DecodeURIComponent(Val(val))
         IN  [ok |-> d.ok, value |-> IF d.ok THEN Some(d.value) ELSE None]
    ELSE [ok |-> TRUE, value |-> None]

\* params[name] = value
Assign(params, name, value) ==
    [k \in DOMAIN params \cup {name} |-> IF k = name THEN value ELSE params[k]]

\* The empty object literal.
EmptyObject == [k \in {} |-> <<>>]

RECURSIVE AssignParams(_, _, _, _)
\* keys.forEach((key, index) => ...): in key order, a value that is not
\* undefined is assigned to params[key.name].
AssignParams(keys, args, index, params) ==
    IF index > Len(keys) THEN params
    ELSE AssignParams(keys, args, index + 1,
             IF IsSome(args[index]) THEN Assign(params, keys[index], Val(args[index]))
             ELSE params)

\* A variant of Matches without the HEAD fallback.
Matches_NoHeadFallback(reqMethod, method) ==
    IF ~IsSome(method) THEN TRUE
    ELSE IF reqMethod = Val(method) THEN TRUE
    ELSE FALSE

\* matches(ctx, method)
Matches(reqMethod, method) ==
    IF ~IsSome(method) THEN TRUE
    ELSE IF reqMethod = Val(method) THEN TRUE
    ELSE IF Val(method) = "GET" /\ reqMethod = "HEAD" THEN TRUE
    ELSE FALSE

\* The route a successful registration adds to the application.
Route(method, path, handlers) == [method |-> method, path |-> path, handlers |-> handlers]

\* A variant of NoHandlersMessage that prints the verb as it is.
NoHandlersMessage_RawVerb(method, path) ==
    <<"Route ", IF IsSome(method) THEN Val(method) ELSE "undefined", " ">> \o path
        \o <<" must have at least one handler">>

\* The error createRouteMethod throws for a registration with no handlers.
NoHandlersMessage(method, path) ==
    <<"Route ", IF IsSome(method) THEN Val(method) ELSE "ALL", " ">> \o path
        \o <<" must have at least one handler">>

\* The value a registration call returned or the error it threw.
Outcome(kind, fn, path, nHandlers, message) ==
    [kind |-> kind, fn |-> fn, path |-> path, nHandlers |-> nHandlers, message |-> message]

NoOutcome == Outcome("none", "", <<>>, 0, <<>>)

\* The request of a context before any route has matched.
Request(method, pathname) ==
    [method |-> method, pathname |-> pathname, params |-> None, routePath |-> None]

NoRequest == Request("", <<>>)

\* Where the handling of the request stands: about to call middleware `route`
\* (at = "mw"), or inside handler `handler` of that route (at = "handler").
At(at, route, handler) == [at |-> at, route |-> route, handler |-> handler]

Event(ev, route, handler) == [ev |-> ev, route |-> route, handler |-> handler]

\* A variant of WriteRequest that records routePath only while none is recorded.
WriteRequest_KeepRoutePath(r, params, path) ==
    [r EXCEPT !.params = Some(params),
              !.routePath = IF IsSome(r.routePath) THEN r.routePath ELSE Some(path)]

\* A variant of WriteRequest that adds the captures to the params already there.
WriteRequest_Merge(r, params, path) ==
    [r EXCEPT !.params = Some([k \in DOMAIN params \cup (IF IsSome(r.params) THEN DOMAIN Val(r.params) ELSE {})
                                 |-> IF k \in DOMAIN params THEN params[k] ELSE Val(r.params)[k]]),
              !.routePath = Some(path)]

\* ctx.req.params = params; ctx.req.routePath = path
WriteRequest(r, params, path) ==
    [r EXCEPT !.params = Some(params), !.routePath = Some(path)]

\* A variant of RouteMiddleware that records routePath before it runs the
\* regular expression.
RouteMiddleware_WritesBeforeExec(route, r, opts) ==
    IF ~Matches(r.method, route.method) THEN [does |-> "next", why |-> "method", req |-> r]
    ELSE LET re == PathToRegexp(route.path, opts)
             m == Exec(re, r.pathname, opts)
             args == [k \in 1..Len(m.caps) |-> Decode(m.caps[k])]
             w == [r EXCEPT !.routePath = Some(route.path)]
         IN  IF ~m.ok THEN [does |-> "next", why |-> "path", req |-> w]
             ELSE IF \E k \in 1..Len(args) : ~args[k].ok
                  THEN [does |-> "throw", why |-> "URIError", req |-> w]
                  ELSE [does |-> "invoke", why |-> "match",
                        req |-> WriteRequest(w,
                                    AssignParams(re.keys, [k \in 1..Len(args) |-> args[k].value],
                                                 1, EmptyObject),
                                    route.path)]

\* routeMiddleware(ctx, next) of one route on one request: what it does
\* ("next": it calls next(); "throw": decode throws; "invoke": it writes the
\* request and calls the composed handlers) and the request it leaves.
RouteMiddleware(route, r, opts) ==
    IF ~Matches(r.method, route.method) THEN [does |-> "next", why |-> "method", req |-> r]
    ELSE LET re == PathToRegexp(route.path, opts)
             m == Exec(re, r.pathname, opts)
             args == [k \in 1..Len(m.caps) |-> Decode(m.caps[k])]
         IN  IF ~m.ok THEN [does |-> "next", why |-> "path", req |-> r]
             ELSE IF \E k \in 1..Len(args) : ~args[k].ok
                  THEN [does |-> "throw", why |-> "URIError", req |-> r]
                  ELSE [does |-> "invoke", why |-> "match",
                        req |-> WriteRequest(r,
                                    AssignParams(re.keys, [k \in 1..Len(args) |-> args[k].value],
                                                 1, EmptyObject),
                                    route.path)]

\* A variant of FirstHandler that starts the chain at its last handler.
FirstHandler_Last(handlers) == Len(handlers)

\* composed(ctx, next) at its start: the handler it invokes first.
FirstHandler(handlers) == 1

\* A variant of NextOf for handlers that were never composed: every next is
\* the continuation of the route middleware.
NextOf_NotComposed(handlers, j) == 0

\* What handler j's next is: the next handler of the chain (its index), or 0
\* for the continuation the route middleware was given.  A single handler is
\* not composed: its next is that continuation itself.
NextOf(handlers, j) ==
    IF Len(handlers) = 1 THEN 0
    ELSE IF j + 1 <= Len(handlers) THEN j + 1 ELSE 0

\* ---------------------------------------------------------------- actions

\* A variant of Register that compiles the pattern lazily: the route is added
\* whether or not its pattern compiles.
Register_CompilesLazily(fn, path, handlers) ==
    LET method == RouteMethodOf(fn)
        n == Len(handlers)
    IN  /\ phase = "setup"
        /\ IF n = 0
           THEN /\ result' = Outcome("Error", fn, path, n, NoHandlersMessage(method, path))
                /\ UNCHANGED middleware
           ELSE /\ Len(middleware) < MaxRoutes
                /\ middleware' = Append(middleware, Route(method, path, handlers))
                /\ result' = Outcome("app", fn, path, n, <<>>)
        /\ UNCHANGED <<options, phase, req, pc, failure, trace, parked>>

\* A variant of Register that puts the new route in front of the others.
Register_Prepends(fn, path, handlers) ==
    LET method == RouteMethodOf(fn)
        n == Len(handlers)
    IN  /\ phase = "setup"
        /\ IF n = 0
           THEN /\ result' = Outcome("Error", fn, path, n, NoHandlersMessage(method, path))
                /\ UNCHANGED middleware
           ELSE IF ~PathToRegexp(path, options).ok
                THEN /\ result' = Outcome("TypeError", fn, path, n, <<>>)
                     /\ UNCHANGED middleware
                ELSE /\ Len(middleware) < MaxRoutes
                     /\ middleware' = <<Route(method, path, handlers)>> \o middleware
                     /\ result' = Outcome("app", fn, path, n, <<>>)
        /\ UNCHANGED <<options, phase, req, pc, failure, trace, parked>>

\* app[fn](path, ...handlers): the function createRouteMethod returns.
Register(fn, path, handlers) ==
    LET method == RouteMethodOf(fn)
        n == Len(handlers)
    IN  /\ phase = "setup"
        /\ IF n = 0
           THEN /\ result' = Outcome("Error", fn, path, n, NoHandlersMessage(method, path))
                /\ UNCHANGED middleware
           ELSE IF ~PathToRegexp(path, options).ok
                THEN /\ result' = Outcome("TypeError", fn, path, n, <<>>)
                     /\ UNCHANGED middleware
                ELSE /\ Len(middleware) < MaxRoutes
                     /\ middleware' = Append(middleware, Route(method, path, handlers))
                     /\ result' = Outcome("app", fn, path, n, <<>>)
        /\ UNCHANGED <<options, phase, req, pc, failure, trace, parked>>

\* app.fetch(request): a new context enters the application's middleware.
Fetch(method, pathname) ==
    /\ pc.at \in {"idle", "done"}
    /\ phase' = "serving"
    /\ result' = NoOutcome
    /\ req' = Request(method, pathname)
    /\ pc' = At("mw", 1, 0)
    /\ failure' = None
    /\ trace' = <<>>
    /\ UNCHANGED <<options, middleware, parked>>

\* The application calls the route middleware the request has reached.
CallRouteMiddleware ==
    /\ pc.at = "mw"
    /\ pc.route <= Len(middleware)
    /\ LET i == pc.route
           out == RouteMiddleware(middleware[i], req, options)
       IN  /\ req' = out.req
           /\ CASE out.does = "next" ->
                     /\ pc' = At("mw", i + 1, 0)
                     /\ failure' = failure
                     /\ trace' = Append(trace,
                            Event(IF out.why = "method" THEN "passMethod" ELSE "passPath", i, 0))
                [] out.does = "throw" ->
                     /\ pc' = At("done", i, 0)
                     /\ failure' = Some(out.why)
                     /\ trace' = Append(trace, Event("throw", i, 0))
                [] out.does = "invoke" ->
                     /\ pc' = At("handler", i, FirstHandler(middleware[i].handlers))
                     /\ failure' = failure
                     /\ trace' = trace \o <<Event("match", i, 0),
                                    Event("invoke", i, FirstHandler(middleware[i].handlers))>>
    /\ UNCHANGED <<options, middleware, result, phase, parked>>

\* The running handler calls its next.
HandlerCallsNext ==
    /\ pc.at = "handler"
    /\ LET i == pc.route
           j == pc.handler
           k == NextOf(middleware[i].handlers, j)
       IN  IF k = 0
           THEN /\ pc' = At("mw", i + 1, 0)
                /\ trace' = Append(trace, Event("next", i, j))
           ELSE /\ pc' = At("handler", i, k)
                /\ trace' = trace \o <<Event("next", i, j), Event("invoke", i, k)>>
    /\ UNCHANGED <<options, middleware, result, phase, req, failure, parked>>

\* The running handler returns without calling its next.
HandlerReturns ==
    /\ pc.at = "handler"
    /\ pc' = At("done", pc.route, pc.handler)
    /\ trace' = Append(trace, Event("return", pc.route, pc.handler))
    /\ UNCHANGED <<options, middleware, result, phase, req, failure, parked>>

\* A variant of HandlerThrows in which the route middleware catches the
\* failure and calls its continuation instead.
HandlerThrows_Recovered ==
    /\ pc.at = "handler"
    /\ pc' = At("mw", pc.route + 1, 0)
    /\ trace' = Append(trace, Event("throw", pc.route, pc.handler))
    /\ UNCHANGED <<options, middleware, result, phase, req, failure, parked>>

\* The running handler throws.
HandlerThrows ==
    /\ pc.at = "handler"
    /\ pc' = At("done", pc.route, pc.handler)
    /\ failure' = Some("HandlerError")
    /\ trace' = Append(trace, Event("throw", pc.route, pc.handler))
    /\ UNCHANGED <<options, middleware, result, phase, req, parked>>

\* The continuation of the last route middleware: the end of the
\* application's middleware, where the host takes over.
OuterContinuation ==
    /\ pc.at = "mw"
    /\ pc.route = Len(middleware) + 1
    /\ pc' = At("done", pc.route, 0)
    /\ trace' = Append(trace, Event("outer", pc.route, 0))
    /\ UNCHANGED <<options, middleware, result, phase, req, failure, parked>>

\* The context of one request: what the host hands to every middleware, and
\* where the handling of that request stands.
Context(r, at, f, tr) == [req |-> r, pc |-> at, failure |-> f, trace |-> tr]

\* app.fetch(request) while an earlier request is suspended in the middle of
\* its handling, or after it has ended: the earlier context is set aside and a
\* new context enters the application's middleware.
FetchConcurrent(method, pathname) ==
    /\ pc.at # "idle"
    /\ parked = None
    /\ parked' = Some(Context(req, pc, failure, trace))
    /\ req' = Request(method, pathname)
    /\ pc' = At("mw", 1, 0)
    /\ failure' = None
    /\ trace' = <<>>
    /\ UNCHANGED <<options, middleware, result, phase>>

\* A variant of Resume in which the route middleware keeps the current match
\* in state shared by all requests: the resumed request sees the params and
\* the routePath written last.
Resume_SharedMatch ==
    /\ IsSome(parked)
    /\ parked' = Some(Context(req, pc, failure, trace))
    /\ req' = [Val(parked).req EXCEPT !.params = req.params, !.routePath = req.routePath]
    /\ pc' = Val(parked).pc
    /\ failure' = Val(parked).failure
    /\ trace' = Val(parked).trace
    /\ UNCHANGED <<options, middleware, result, phase>>

\* The running request suspends (a middleware or handler awaits) or has ended,
\* and the host resumes the other request where it stood.
Resume ==
    /\ IsSome(parked)
    /\ parked' = Some(Context(req, pc, failure, trace))
    /\ req' = Val(parked).req
    /\ pc' = Val(parked).pc
    /\ failure' = Val(parked).failure
    /\ trace' = Val(parked).trace
    /\ UNCHANGED <<options, middleware, result, phase>>

\* The handler lists a registration passes: none, or handlers 1..n.
HandlerLists == { [j \in 1..n |-> j] : n \in 0..MaxHandlers }

\* A router with the default options on an application with no route yet.
Init ==
    /\ options = DefaultOptions
    /\ middleware = <<>>
    /\ result = NoOutcome
    /\ phase = "setup"
    /\ req = NoRequest
    /\ pc = At("idle", 0, 0)
    /\ failure = None
    /\ trace = <<>>
    /\ parked = None

\* The steps of an application whose registrations and requests are drawn
\* from the given registration functions, patterns, verbs and paths.
Step(fns, patterns, methods, paths) ==
    \/ \E fn \in fns, path \in patterns, handlers \in HandlerLists :
          Register(fn, path, handlers)
    \/ \E method \in methods, pathname \in paths : Fetch(method, pathname)
    \/ CallRouteMiddleware
    \/ HandlerCallsNext
    \/ HandlerReturns
    \/ HandlerThrows
    \/ OuterContinuation

\* Dispatch: two patterns that both match /x and one that does not compile;
\* a request whose capture is malformed; a verb only app.all serves.
RegPatterns == { <<"/", ":", "n">>, <<"/", "x", "{", "/", ":", "y", "}">>, <<"/", "x", "{">> }

RegFunctions == {"get", "all"}

ReqMethods == {"GET", "POST"}

ReqPaths == { <<"/", "x">>, <<"/", "x", "/", "x">>, <<"/", "%">> }

Next == Step(RegFunctions, RegPatterns, ReqMethods, ReqPaths)

Spec == Init /\ [][Next]_vars

\* Methods: one pattern, every kind of registration function, every verb.
VerbPatterns == { <<"/", ":", "n">> }

VerbFunctions == {"get", "head", "post", "all"}

VerbMethods == {"GET", "HEAD", "POST"}

VerbPaths == { <<"/", "x">>, <<"/", "x", "/", "x">> }

NextMethods == Step(VerbFunctions, VerbPatterns, VerbMethods, VerbPaths)

SpecMethods == Init /\ [][NextMethods]_vars

\* Parameters: one route registered through app.all with one handler, under
\* each setting of end and trailing, and every request path up to MaxPathLen.
\* Fetch resets everything a request leaves behind, so the first request of an
\* application already reaches every state a later one can.
ParamPatterns ==
    { <<"/", ":", "n", "{", "/", ":", "y", "}">>,
      <<"/", ":", "n", "/", ":", "n">>,
      <<"/", ":", "n", "{", "/", ":", "n", "}">>,
      <<"/", "x", "{", "/", ":", "y", "}">>,
      <<"/", "*", "n">> }

ParamOptions ==
    { [DefaultOptions EXCEPT !.end = e, !.trailing = t] : e \in BOOLEAN, t \in BOOLEAN }

AllPaths ==
    { s \in UNION { [1..n -> PathChars] : n \in 1..MaxPathLen } : s[1] = "/" }

InitParams ==
    /\ options \in ParamOptions
    /\ \E path \in ParamPatterns :
          /\ middleware = <<Route(RouteMethodOf("all"), path, <<1>>)>>
          /\ result = Outcome("app", "all", path, 1, <<>>)
    /\ phase = "setup"
    /\ req = NoRequest
    /\ pc = At("idle", 0, 0)
    /\ failure = None
    /\ trace = <<>>
    /\ parked = None

NextParams ==
    \/ pc.at = "idle" /\ \E pathname \in AllPaths : Fetch("GET", pathname)
    \/ CallRouteMiddleware
    \/ HandlerCallsNext
    \/ HandlerReturns
    \/ HandlerThrows
    \/ OuterContinuation

SpecParams == InitParams /\ [][NextParams]_vars

\* Anchoring: one route registered through app.all with one handler on a
\* static, a named, an optional and a wildcard pattern, under each setting of
\* end and trailing, and every request path up to MaxPathLen.
AnchorPatterns ==
    { <<"/", "x">>,
      <<"/", ":", "n">>,
      <<"/", ":", "n", "{", "/", ":", "y", "}">>,
      <<"/", "*", "n">> }

InitAnchors ==
    /\ options \in ParamOptions
    /\ \E path \in AnchorPatterns :
          /\ middleware = <<Route(RouteMethodOf("all"), path, <<1>>)>>
          /\ result = Outcome("app", "all", path, 1, <<>>)
    /\ phase = "setup"
    /\ req = NoRequest
    /\ pc = At("idle", 0, 0)
    /\ failure = None
    /\ trace = <<>>
    /\ parked = None

SpecAnchors == InitAnchors /\ [][NextParams]_vars

\* Concurrency: an application with two routes that both match /x, and two
\* requests whose handling the host may interleave wherever one of them
\* suspends.  The second request enters while the first is in flight or after
\* it has ended.
ConcurrentRegistrations ==
    { << [fn |-> "get", path |-> <<"/", ":", "n">>, handlers |-> <<1>>],
         [fn |-> "all", path |-> <<"/", "x", "{", "/", ":", "y", "}">>, handlers |-> <<1, 2>>] >>,
      << [fn |-> "all", path |-> <<"/", "x", "{", "/", ":", "y", "}">>, handlers |-> <<1, 2>>],
         [fn |-> "get", path |-> <<"/", ":", "n">>, handlers |-> <<1>>] >> }

ConcurrentPaths == { <<"/", "x">>, <<"/", "x", "/", "2">>, <<"/", "%">> }

InitConcurrent ==
    /\ options = DefaultOptions
    /\ \E regs \in ConcurrentRegistrations :
          /\ middleware = [k \in 1..Len(regs) |->
                              Route(RouteMethodOf(regs[k].fn), regs[k].path, regs[k].handlers)]
          /\ result = Outcome("app", regs[Len(regs)].fn, regs[Len(regs)].path,
                              Len(regs[Len(regs)].handlers), <<>>)
    /\ phase = "setup"
    /\ req = NoRequest
    /\ pc = At("idle", 0, 0)
    /\ failure = None
    /\ trace = <<>>
    /\ parked = None

NextConcurrent ==
    \/ pc.at = "idle" /\ \E method \in ReqMethods, pathname \in ConcurrentPaths :
                             Fetch(method, pathname)
    \/ \E method \in ReqMethods, pathname \in ConcurrentPaths : FetchConcurrent(method, pathname)
    \/ Resume
    \/ CallRouteMiddleware
    \/ HandlerCallsNext
    \/ HandlerReturns
    \/ HandlerThrows
    \/ OuterContinuation

SpecConcurrent == InitConcurrent /\ [][NextConcurrent]_vars

\* ------------------------------------------------------- claim vocabulary

Min(S) == CHOOSE x \in S : \A y \in S : x <= y

\* The events of the trace of one kind.
EventsOf(ev) == SelectSeq(trace, LAMBDA e : e.ev = ev)

\* The routes whose handler chain has been invoked, in the order of invocation.
InvokedRoutes == [k \in 1..Len(EventsOf("match")) |-> EventsOf("match")[k].route]

\* The rule of the method matcher: the route's verb is absent, equal to the
\* request's, or GET for a HEAD request.
Eligible(routeVerb, requestVerb) ==
    \/ routeVerb = None
    \/ routeVerb = Some(requestVerb)
    \/ routeVerb = Some("GET") /\ requestVerb = "HEAD"

\* Whether a route matches the request by method and by path.
RouteMatchesReq(route, r) ==
    /\ Eligible(route.method, r.method)
    /\ Exec(PathToRegexp(route.path, options), r.pathname, options).ok

\* The registered routes that match the request being handled.
Matching == {i \in 1..Len(middleware) : RouteMatchesReq(middleware[i], req)}

\* The request has been handled to its end.
Done == pc.at = "done"

\* ------------------------------------------------------------------ C1

\* C1 as stated: when registered routes match the request, the chain of the
\* earliest is the first invoked, and when the handling of the request has ended
\* without an error the routePath on the request is the earliest route's pattern.
C1_EarliestRoutePathAtEnd ==
    (Done /\ failure = None /\ Matching # {}) =>
        /\ InvokedRoutes # <<>>
        /\ InvokedRoutes[1] = Min(Matching)
        /\ req.routePath = Some(middleware[Min(Matching)].path)

\* C1 as amended: the first chain invoked is that of the earliest matching
\* route, which is invoked unless decoding its captures throws; routePath is
\* always the pattern of the route whose chain was invoked last, so at the end
\* it is the earliest route's pattern exactly when no later route's chain ran.
C1_EarliestFirstRoutePathOfLast ==
    /\ InvokedRoutes # <<>> =>
          /\ InvokedRoutes[1] = Min(Matching)
          /\ req.routePath = Some(middleware[InvokedRoutes[Len(InvokedRoutes)]].path)
    /\ InvokedRoutes = <<>> => req.routePath = None
    /\ (Done /\ Matching # {} /\ InvokedRoutes = <<>>) => failure = Some("URIError")
    /\ (Done /\ Len(InvokedRoutes) = 1) =>
          req.routePath = Some(middleware[Min(Matching)].path)

\* Two routes with different patterns matched, the handler of the earlier one
\* called next, and the request ended with the later route's pattern recorded.
C1_Witness ==
    /\ Done
    /\ failure = None
    /\ Len(InvokedRoutes) = 2
    /\ InvokedRoutes[1] = Min(Matching)
    /\ middleware[InvokedRoutes[1]].path # middleware[InvokedRoutes[2]].path
    /\ req.routePath = Some(middleware[InvokedRoutes[2]].path)

\* ------------------------------------------------------------------ C2

\* C2: a route middleware that was called let the request past its method
\* check exactly when its verb is eligible for the request's; the handlers of
\* a route run only for an eligible verb, never those of a HEAD route for GET.
C2_MethodMatching ==
    \A k \in 1..Len(trace) :
        LET e == trace[k] IN
        /\ e.ev \in {"passMethod", "passPath", "match"} =>
              (e.ev # "passMethod" <=> Eligible(middleware[e.route].method, req.method))
        /\ e.ev = "throw" /\ e.handler = 0 => Eligible(middleware[e.route].method, req.method)
        /\ e.ev = "invoke" =>
              /\ Eligible(middleware[e.route].method, req.method)
              /\ ~(middleware[e.route].method = Some("HEAD") /\ req.method = "GET")

\* A HEAD request passed a POST route whose path matches, for its method, and
\* was then handled by a GET route.
C2_Witness ==
    /\ req.method = "HEAD"
    /\ \E k \in 1..Len(trace) :
          /\ trace[k].ev = "passMethod"
          /\ middleware[trace[k].route].method = Some("POST")
          /\ Exec(PathToRegexp(middleware[trace[k].route].path, options),
                  req.pathname, options).ok
    /\ \E k \in 1..Len(trace) :
          /\ trace[k].ev = "invoke"
          /\ middleware[trace[k].route].method = Some("GET")

\* ------------------------------------------------------------------ C3

\* How many times the chain of route i has been invoked.
Invocations(i) == Len(SelectSeq(trace, LAMBDA e : e.ev = "match" /\ e.route = i))

LastHandler(i) == Len(middleware[i].handlers)

C4_StepOfNonMatchingRoute ==
    (/\ pc.at = "mw"
     /\ pc.route <= Len(middleware)
     /\ ~RouteMatchesReq(middleware[pc.route], req)
     /\ pc' # pc)
    => /\ req' = req
       /\ failure' = failure
       /\ pc' = At("mw", pc.route + 1, 0)
       /\ Len(trace') = Len(trace) + 1
       /\ trace'[Len(trace')].ev \in {"passMethod", "passPath"}
       /\ trace'[Len(trace')].route = pc.route
       /\ SubSeq(trace', 1, Len(trace)) = trace

\* C4, the request: when no registered route matches, params and routePath
\* are never written, and the request ends at the host's outer continuation.
C4_NoRouteMatches ==
    (phase = "serving" /\ Matching = {}) =>
        /\ req.params = None
        /\ req.routePath = None
        /\ failure = None
        /\ \A k \in 1..Len(trace) : trace[k].ev \in {"passMethod", "passPath", "outer"}
        /\ Done => trace[Len(trace)] = Event("outer", Len(middleware) + 1, 0)

\* C4: a route that does not match has no side effect and calls next once;
\* with no matching route the router writes nothing and the host continues.
C4_NoSideEffect == [][C4_StepOfNonMatchingRoute]_vars /\ []C4_NoRouteMatches

\* A request passed two routes, one for its method and one for its path, and
\* reached the outer continuation with nothing written.
C4_Witness ==
    /\ Done
    /\ Matching = {}
    /\ \E k \in 1..Len(trace) : trace[k].ev = "passMethod"
    /\ \E k \in 1..Len(trace) : trace[k].ev = "passPath"
    /\ trace[Len(trace)].ev = "outer"
    /\ req.params = None

\* ------------------------------------------------------------------ C5

\* The route whose middleware wrote the request last.
LastInvoked == InvokedRoutes[Len(InvokedRoutes)]

\* The keys of route i and the slots its regular expression captures from the
\* path of the request.
KeysOfRoute(i) == PathToRegexp(middleware[i].path, options).keys

SlotsOfRoute(i) ==
    Exec(PathToRegexp(middleware[i].path, options), req.pathname, options).caps

\* The positions of route i's keys whose slot holds a non-empty string.
Concrete(i) ==
    {k \in 1..Len(KeysOfRoute(i)) : IsSome(SlotsOfRoute(i)[k]) /\ Val(SlotsOfRoute(i)[k]) # <<>>}

\* C5 as stated: the value params holds for a capture name is the decoded
\* value of the first position of that name that captured a concrete value.
C5_FirstConcreteWins ==
    InvokedRoutes # <<>> =>
        \A k \in Concrete(LastInvoked) :
            (\A j \in Concrete(LastInvoked) :
                 KeysOfRoute(LastInvoked)[j] = KeysOfRoute(LastInvoked)[k] => k <= j)
            => /\ KeysOfRoute(LastInvoked)[k] \in DOMAIN Val(req.params)
               /\ Val(req.params)[KeysOfRoute(LastInvoked)[k]]
                     = DecodeURIComponent(Val(SlotsOfRoute(LastInvoked)[k])).value

\* ------------------------------------------------------------------ C6

\* The routes whose middleware has been called for the request.
Called == {trace[k].route : k \in {n \in 1..Len(trace) : trace[n].handler = 0 /\ trace[n].ev # "outer"}}

\* Route i matches the request with a capture decodeURIComponent rejects.
MalformedCapture(i) ==
    /\ RouteMatchesReq(middleware[i], req)
    /\ \E k \in Concrete(i) : ~DecodeURIComponent(Val(SlotsOfRoute(i)[k])).ok

\* C6 as stated: when a captured value of a matching route is malformed, the
\* request does not fail: the route writes params with the raw text and
\* routePath, and its handler chain is invoked.
C6_DecodeFailurePermissive ==
    \A i \in Called :
        MalformedCapture(i) =>
            /\ failure # Some("URIError")
            /\ Invocations(i) = 1
            /\ (InvokedRoutes # <<>> /\ LastInvoked = i =>
                  /\ req.routePath = Some(middleware[i].path)
                  /\ \E k \in Concrete(i) :
                        /\ ~DecodeURIComponent(Val(SlotsOfRoute(i)[k])).ok
                        /\ KeysOfRoute(i)[k] \in DOMAIN Val(req.params)
                        /\ Val(req.params)[KeysOfRoute(i)[k]] = Val(SlotsOfRoute(i)[k]))

\* ------------------------------------------------------------------ C7

\* C7: once a route has written params, its keys are exactly the capture
\* names with a non-empty captured string, each value is the percent-decoded
\* string of such a capture of that name, and no value is the empty string.
C7_ParamsKeys ==
    InvokedRoutes # <<>> =>
        /\ IsSome(req.params)
        /\ DOMAIN Val(req.params) = {KeysOfRoute(LastInvoked)[k] : k \in Concrete(LastInvoked)}
        /\ \A name \in DOMAIN Val(req.params) :
              /\ Val(req.params)[name] # <<>>
              /\ \E k \in Concrete(LastInvoked) :
                    /\ KeysOfRoute(LastInvoked)[k] = name
                    /\ Val(req.params)[name]
                          = DecodeURIComponent(Val(SlotsOfRoute(LastInvoked)[k])).value

\* /:n{/:y} matched /%2F: n is the decoded "/", y is absent.
C7_Witness ==
    /\ InvokedRoutes # <<>>
    /\ middleware[LastInvoked].path = <<"/", ":", "n", "{", "/", ":", "y", "}">>
    /\ req.pathname = <<"/", "%", "2", "F">>
    /\ IsSome(req.params)
    /\ DOMAIN Val(req.params) = {<<"n">>}
    /\ Val(req.params)[<<"n">>] = <<"/">>

\* ------------------------------------------------------------------ C8

\* C8: after every match the params on the request hold only captures of the
\* route that has just matched, whatever an earlier route wrote, and routePath
\* is that route's pattern.
C8_ParamsReplaced ==
    InvokedRoutes # <<>> =>
        /\ IsSome(req.params)
        /\ \A name \in DOMAIN Val(req.params) :
              \E k \in Concrete(LastInvoked) : KeysOfRoute(LastInvoked)[k] = name
        /\ req.routePath = Some(middleware[LastInvoked].path)

\* A second route matched after the first wrote a key the second does not
\* capture, and that key is gone.
C8_Witness ==
    /\ Len(InvokedRoutes) = 2
    /\ \E k \in Concrete(InvokedRoutes[1]) :
          KeysOfRoute(InvokedRoutes[1])[k] \notin DOMAIN Val(req.params)
    /\ req.routePath = Some(middleware[InvokedRoutes[2]].path)
    /\ req.routePath # Some(middleware[InvokedRoutes[1]].path)

\* ------------------------------------------------------------------ C9

\* C9: on a match handler 1 is invoked first; handler j+1 is invoked only by
\* handler j calling next; a later middleware (the next route or the host's
\* continuation) is reached only from a route that passed the request on or
\* whose last handler called next; after a handler returns or throws without
\* calling next nothing else runs.
C9_ChainOrder ==
    \A k \in 1..Len(trace) :
        LET e == trace[k] IN
        /\ k = 1 => e.route = 1 /\ e.handler = 0
        /\ e.ev = "match" => k < Len(trace) /\ trace[k + 1] = Event("invoke", e.route, 1)
        /\ e.ev = "invoke" =>
              /\ e.handler \in 1..Len(middleware[e.route].handlers)
              /\ k > 1
              /\ IF e.handler = 1 THEN trace[k - 1] = Event("match", e.route, 0)
                 ELSE trace[k - 1] = Event("next", e.route, e.handler - 1)
        /\ e.ev = "next" => k > 1 /\ trace[k - 1] = Event("invoke", e.route, e.handler)
        /\ e.ev \in {"return", "throw", "outer"} => k = Len(trace)
        /\ e.ev \in {"return", "throw"} /\ e.handler > 0 =>
              k > 1 /\ trace[k - 1] = Event("invoke", e.route, e.handler)
        /\ e.handler = 0 /\ k > 1 =>
              \/ trace[k - 1].ev \in {"passMethod", "passPath"} /\ trace[k - 1].route = e.route - 1
              \/ trace[k - 1] = Event("next", e.route - 1, LastHandler(e.route - 1))

\* Both handlers of the first route called next in turn, the single handler of
\* the second route called next, and the request reached the host's continuation.
C9_Witness ==
    /\ Done
    /\ Len(middleware) = 2
    /\ LastHandler(1) = 2
    /\ LastHandler(2) = 1
    /\ Len(trace) = 9
    /\ SubSeq(trace, 1, 5) = <<Event("match", 1, 0), Event("invoke", 1, 1), Event("next", 1, 1),
                                Event("invoke", 1, 2), Event("next", 1, 2)>>
    /\ SubSeq(trace, 6, 9) = <<Event("match", 2, 0), Event("invoke", 2, 1), Event("next", 2, 1),
                                Event("outer", 3, 0)>>

\* ------------------------------------------------------------------ C10

\* The verb a registration function names in its error.
VerbInMessage(fn) ==
    CASE fn = "all" -> "ALL" [] fn = "get" -> "GET" [] fn = "head" -> "HEAD" [] fn = "post" -> "POST"

\* Whether sequence part occurs in sequence whole.
Occurs(part, whole) ==
    \E k \in 0..(Len(whole) - Len(part)) : SubSeq(whole, k + 1, k + Len(part)) = part

\* C10, the call: a registration with no handlers throws an error that names
\* the verb and the pattern, and leaves the registered routes as they were.
C10_StepOfEmptyRegistration ==
    (result' # result /\ result'.kind # "none" /\ result'.nHandlers = 0)
    => /\ result'.kind = "Error"
       /\ Occurs(<<VerbInMessage(result'.fn)>>, result'.message)
       /\ Occurs(result'.path, result'.message)
       /\ middleware' = middleware

\* C10, the registry: no registered route is without handlers.
C10_NoRouteWithoutHandlers ==
    /\ \A i \in 1..Len(middleware) : Len(middleware[i].handlers) >= 1
    /\ result.kind = "Error" => result.nHandlers = 0

\* C10: registering with no handlers fails with an error naming the verb (ALL
\* for app.all) and the pattern and adds no route.
C10_NoHandlersRejected == [][C10_StepOfEmptyRegistration]_vars /\ []C10_NoRouteWithoutHandlers

\* app.all was called with a pattern and no handler after a route had been
\* registered: it threw, and the registry holds that one route.
C10_Witness ==
    /\ result.kind = "Error"
    /\ result.fn = "all"
    /\ result.nHandlers = 0
    /\ Occurs(<<"ALL">>, result.message)
    /\ Len(middleware) = 1

\* ------------------------------------------------------------------ C12

\* The step of a registration call whose pattern does not compile: the call
\* throws and the routes stay as they were.
C12_StepOfMalformedRegistration ==
    (/\ result'.kind # "none"
     /\ result' # result \/ middleware' # middleware
     /\ ~PathToRegexp(result'.path, options).ok)
        => /\ result'.kind \in {"Error", "TypeError"}
           /\ result'.nHandlers > 0 => result'.kind = "TypeError"
           /\ middleware' = middleware

\* Every registered route has a pattern that compiles, no request fails with
\* an error of the pattern compiler, and no request is matched by a route whose
\* pattern does not compile.
C12_NoMalformedRoute ==
    /\ \A i \in 1..Len(middleware) : PathToRegexp(middleware[i].path, options).ok
    /\ failure \in {None, Some("URIError"), Some("HandlerError")}
    /\ \A k \in 1..Len(trace) :
          trace[k].ev = "match" => PathToRegexp(middleware[trace[k].route].path, options).ok

\* C12: a malformed pattern is rejected at registration time and never at
\* request time: the registration call throws synchronously, it adds no
\* route, and no later request raises a pattern error or is matched by the
\* malformed pattern.
C12_MalformedRejectedAtRegistration ==
    [][C12_StepOfMalformedRegistration]_vars /\ []C12_NoMalformedRoute

\* A registration with handlers and a malformed pattern has thrown after an
\* earlier registration succeeded: the earlier route is the only one.
C12_Witness ==
    /\ result.kind = "TypeError"
    /\ result.nHandlers > 0
    /\ ~PathToRegexp(result.path, options).ok
    /\ Len(middleware) = 1

\* ------------------------------------------------------------------ C15

\* The step in which a handler of a matched route fails: the handling of the
\* request ends there with the handler's failure, and the request is not
\* touched.
C15_StepOfHandlerFailure ==
    (/\ pc.at = "handler"
     /\ Len(trace') = Len(trace) + 1
     /\ trace'[Len(trace')].ev = "throw")
        => /\ pc'.at = "done"
           /\ failure' = Some("HandlerError")
           /\ req' = req
           /\ trace'[Len(trace')] = Event("throw", pc.route, pc.handler)

\* Nothing runs after a failure: the failure is the last event of the request,
\* the handling has ended, and the failure the host sees is the one that was
\* thrown.
C15_NothingAfterFailure ==
    \A k \in 1..Len(trace) :
        trace[k].ev = "throw" =>
            /\ k = Len(trace)
            /\ Done
            /\ failure = Some(IF trace[k].handler = 0 THEN "URIError" ELSE "HandlerError")

\* C15: a failure of a handler of a matched route propagates out of the route
\* middleware unchanged: no later handler of that route and no later route
\* runs after it, and the continuation is not called in its place.
C15_HandlerFailurePropagates ==
    [][C15_StepOfHandlerFailure]_vars /\ []C15_NothingAfterFailure

\* The first of two handlers of the first route has failed while a second
\* route that matches the request is registered: neither the second handler
\* nor the second route has run.
C15_Witness ==
    /\ Done
    /\ failure = Some("HandlerError")
    /\ Len(middleware) = 2
    /\ Len(middleware[1].handlers) = 2
    /\ 2 \in Matching
    /\ trace = <<Event("match", 1, 0), Event("invoke", 1, 1), Event("throw", 1, 1)>>

\* ------------------------------------------------------------------ C17

\* The step of a registration call that returns: it returns the application and
\* the routes are the routes of before followed by one route with the verb, the
\* pattern and the handlers of the call.
C17_StepOfSuccessfulRegistration ==
    (/\ result'.kind = "app"
     /\ result' # result \/ middleware' # middleware)
        => middleware' = Append(middleware,
                                Route(RouteMethodOf(result'.fn), result'.path,
                                      [j \in 1..result'.nHandlers |-> j]))

\* No step removes, replaces or moves a route, and only a registration call
\* that returns the application adds one.
C17_StepKeepsRoutes ==
    /\ Len(middleware') >= Len(middleware)
    /\ SubSeq(middleware', 1, Len(middleware)) = middleware
    /\ middleware' # middleware =>
          /\ Len(middleware') = Len(middleware) + 1
          /\ result'.kind = "app"

\* C17: registration is append-only and ordered: a successful registration
\* adds exactly one route at the end, leaves the routes registered before as
\* they were, and returns the application; no step removes or reorders a route.
C17_AppendOnly ==
    [][C17_StepOfSuccessfulRegistration /\ C17_StepKeepsRoutes]_vars

\* A second registration has returned the application: its route is the last
\* one, behind a different route registered before it.
C17_Witness ==
    /\ result.kind = "app"
    /\ Len(middleware) = 2
    /\ middleware[1].path # middleware[2].path
    /\ middleware[1].method # middleware[2].method
    /\ middleware[2] = Route(RouteMethodOf(result.fn), result.path,
                             [j \in 1..result.nHandlers |-> j])

\* ------------------------------------------------------------------ C16

\* C16: a GET route is only a fallback for HEAD: when a HEAD route matches a
\* HEAD request, the first chain invoked for it is not that of a GET route,
\* whichever of the two was registered first.
C16_HeadRouteBeforeGetFallback ==
    (/\ req.method = "HEAD"
     /\ InvokedRoutes # <<>>
     /\ \E i \in Matching : middleware[i].method = Some("HEAD"))
        => middleware[InvokedRoutes[1]].method # Some("GET")

\* ------------------------------------------------------------------ C13

\* The pattern of the only route of an application with one route.
ThePattern == middleware[1].path

HasWildcard(pattern) == \E k \in 1..Len(pattern) : pattern[k] = "*"

\* The route middleware has been called for the request, and its regular
\* expression matched the path.
Tried == trace # <<>>

PathMatched == Tried /\ trace[1].ev \in {"match", "throw"}

\* What the route does with a request of the same verb for path q under the
\* options opts.
OnPath(q, opts) == RouteMiddleware(middleware[1], Request(req.method, q), opts)

\* The route did with the request what ref says: it matched with the same
\* params, or it failed in the same way.
SameOutcome(ref) ==
    CASE ref.does = "invoke" -> trace[1].ev = "match" /\ req.params = ref.req.params
      [] ref.does = "throw" -> trace[1].ev = "throw"
      [] OTHER -> ~PathMatched

\* The path ends with the delimiter; the path without its last character.
Trailed(path) == path # <<>> /\ path[Len(path)] = options.delimiter

Strip(path) == SubSeq(path, 1, Len(path) - 1)

\* The rule of the trailing delimiter under end = true, for every pattern
\* (wildcards = TRUE) or for the patterns without a wildcard: with trailing,
\* a path that matches without its last delimiter matches with the same params
\* and a path with two trailing delimiters does not match; without trailing,
\* a path with a trailing delimiter does not match.  No pattern of the
\* specification ends with a delimiter of its own.
TrailingRule(wildcards) ==
    (/\ Tried
     /\ options.end
     /\ Trailed(req.pathname)
     /\ wildcards \/ ~HasWildcard(ThePattern))
        => LET q == Strip(req.pathname)
               ref == OnPath(q, [options EXCEPT !.trailing = FALSE])
           IN  /\ (options.trailing /\ ref.does # "next") => SameOutcome(ref)
               /\ (options.trailing /\ Trailed(q)) => ~PathMatched
               /\ ~options.trailing => ~PathMatched

Segments(path) ==
    Cardinality({k \in 1..(Len(path) - 1) :
                    path[k] = options.delimiter /\ path[k + 1] # options.delimiter})

Delimiters(pattern) == Cardinality({k \in 1..Len(pattern) : pattern[k] = options.delimiter})

\* The prefixes of the path of the request that end where a segment ends and
\* that the route matches as a whole path (under end = true).
MatchingPrefixes ==
    {k \in 1..Len(req.pathname) :
        /\ k = Len(req.pathname) \/ req.pathname[k + 1] = options.delimiter
        /\ OnPath(SubSeq(req.pathname, 1, k), [options EXCEPT !.end = TRUE]).does # "next"}

PrefixOutcome(k) == OnPath(SubSeq(req.pathname, 1, k), [options EXCEPT !.end = TRUE])

\* Under end = true a path with more segments than the pattern can take does
\* not match.
C14_ExtraSegmentsRejected ==
    (/\ Tried
     /\ options.end
     /\ ~HasWildcard(ThePattern)
     /\ Segments(req.pathname) > Delimiters(ThePattern))
        => ~PathMatched

Contexts ==
    {Context(req, pc, failure, trace)} \cup (IF IsSome(parked) THEN {Val(parked)} ELSE {})

\* What route i does with the request of context c as it entered the
\* application, whatever else the application is handling.
Alone(c, i) == RouteMiddleware(middleware[i], Request(c.req.method, c.req.pathname), options)

\* The events of the route middlewares in the trace of context c, and the
\* routes that matched it.
RouterEvents(c) == SelectSeq(c.trace, LAMBDA e : e.handler = 0 /\ e.ev # "outer")

MatchesOf(c) == SelectSeq(c.trace, LAMBDA e : e.ev = "match")

\* Context c is what the registry and its own request alone determine: the
\* routes were tried in registration order, each did what it does with this
\* request, and params and routePath are those the last route that matched it
\* wrote for this request, or are unset.
DispatchedAlone(c) ==
    /\ \A k \in 1..Len(RouterEvents(c)) :
          LET e == RouterEvents(c)[k]
              d == Alone(c, e.route)
          IN  /\ e.route <= Len(middleware)
              /\ k > 1 => e.route > RouterEvents(c)[k - 1].route
              /\ CASE e.ev = "passMethod" -> d.does = "next" /\ d.why = "method"
                   [] e.ev = "passPath" -> d.does = "next" /\ d.why = "path"
                   [] e.ev = "match" -> d.does = "invoke"
                   [] e.ev = "throw" -> d.does = "throw"
                   [] OTHER -> FALSE
    /\ \A i \in 1..Len(middleware) :
          (c.pc.at = "done" /\ c.failure = None /\ Alone(c, i).does = "invoke"
              /\ \A k \in 1..Len(MatchesOf(c)) : MatchesOf(c)[k].route # i)
            => \E k \in 1..Len(c.trace) : c.trace[k].ev = "return" /\ c.trace[k].route < i
    /\ c.req = IF MatchesOf(c) = <<>>
               THEN Request(c.req.method, c.req.pathname)
               ELSE Alone(c, MatchesOf(c)[Len(MatchesOf(c))].route).req

\* C11: what a request's dispatch does and what the request sees depend on
\* the registry and that request only, whether it is handled alone, after
\* another request or interleaved with one: no request sees params or
\* routePath written for another.
C11_RequestIndependence == \A c \in Contexts : DispatchedAlone(c)

\* Two requests are suspended in handlers at the same time, each with the
\* params and the routePath of its own match: GET /x has been through /:n and
\* is in /x{/:y} with no params, /x/2 is in /x{/:y} with y.
C11_Witness ==
    /\ IsSome(parked)
    /\ pc.at = "handler"
    /\ Val(parked).pc.at = "handler"
    /\ Len(trace) > Len(Val(parked).trace)
    /\ req.pathname = <<"/", "x">>
    /\ Val(parked).req.pathname = <<"/", "x", "/", "2">>
    /\ req.params = Some(EmptyObject)
    /\ req.routePath = Some(<<"/", "x", "{", "/", ":", "y", "}">>)
    /\ Val(parked).req.params = Some([k \in {<<"y">>} |-> <<"2">>])

====
